---- MODULE Spec2Model ----
(***************************************************************************)
(* Model of the csmith/puzzles service runtime.                            *)
(*                                                                         *)
(* Two programs are modelled, selected by the variable `variant`:          *)
(*   "shared"     src/main.go          word lists loaded once at startup,  *)
(*                                      multiplexed lookups, EXIF upload   *)
(*   "perRequest" src/unnamed/part_000  word list loaded by every lookup   *)
(*                                      request, css/js template routes    *)
(*                                                                         *)
(* Processes: the main goroutine (mainPc), the goroutine running           *)
(* ListenAndServe (listener), the template watcher goroutine (watcher),    *)
(* and one goroutine per in-flight request (reqs).  The environment edits  *)
(* the template directory and sends signals.                               *)
(*                                                                         *)
(* Only signals that signal.Notify can deliver on the stop channel are     *)
(* modelled (os.Interrupt); os.Kill cannot be caught and is not delivered. *)
(*                                                                         *)
(* Spec is the runtime: startup, the watcher and its reloads, the requests *)
(* that render templates, and shutdown.  HandlerSpec is the request        *)
(* pipeline: startup, then requests on every route with their responses.   *)
(* FullSpec is both together.  The watcher's reload takes two steps, the   *)
(* receipt of an event and the reloadTemplates() call it triggers.         *)
(* The plain write of `templates` by the watcher races with the handlers'  *)
(* reads; `unsynced` holds while that write is not ordered before them.    *)
(***************************************************************************)
EXTENDS Integers, Sequences, FiniteSets, TLC

VARIABLES
    variant,      \* which program runs: "shared" or "perRequest"
    tdirWatched,  \* whether *templateDirectory is the directory "./templates"
    mainPc,       \* position of the main goroutine (where it was, once exited)
    exitCode,     \* Running while the process runs, else the process exit code
    exitCause,    \* why the process ended
    words,        \* the package variable words (main.go): "unset" or "loaded"
    templates,    \* the package variable templates: Unset or the version parsed
    unsynced,     \* the last write of templates is not yet ordered before reads
    diskVersion,  \* version of the template files in *templateDirectory
    diskOk,       \* whether those files parse
    watcher,      \* the templateReloader goroutine: "none", "running"
    watching,     \* whether watcher.Add("./templates") succeeded
    events,       \* watcher.Events: the kinds of the events not yet received
    parsing,      \* event kinds whose reloadTemplates() call is in progress
    listener,     \* "unbound", "listening", "failed", "closed"
    stop,         \* number of signals buffered in the stop channel
    elapsed,      \* seconds since context.WithTimeout was called
    reqs          \* the request slots

vars == <<variant, tdirWatched, mainPc, exitCode, exitCause, words, templates,
          unsynced, diskVersion, diskOk, watcher, watching, events, parsing,
          listener, stop, elapsed, reqs>>

(***************************************************************************)
(* Bounds of the model.                                                    *)
(***************************************************************************)
MaxRequests == 1
MaxEdits == 1
MaxEvents == 1

(***************************************************************************)
(* Program constants.                                                      *)
(***************************************************************************)
MaxInputLen == 13
ShutdownTimeout == 5
StopCapacity == 1
StatusOK == 200
StatusBadRequest == 400
StatusNotFound == 404
StatusInternalServerError == 500
ExitOk == 0
ExitFatal == 1
ExitPanic == 2

Unset == 0 - 1
Running == 0 - 1

Variants == {"shared", "perRequest"}
EventKinds == {"write", "create", "remove", "rename", "chmod"}
Slots == 1..MaxRequests

(***************************************************************************)
(* Values.                                                                 *)
(***************************************************************************)
\* A Go []string: the nil slice differs from an empty one.
GoSlice(isNil, elems) == [isNil |-> isNil, elems |-> elems]
NilSlice == GoSlice(TRUE, << >>)

\* What the word-matching collaborator may return for an input.
LookupResults ==
    {NilSlice, GoSlice(FALSE, << >>), GoSlice(FALSE, <<"silent">>)}

\* A request input: its number of characters and its number of bytes.
Input(chars, bytes) == [chars |-> chars, bytes |-> bytes]
NoInput == Input(0, 0)
Inputs ==
    {Input(0, 0), Input(1, 1), Input(MaxInputLen, MaxInputLen),
     Input(MaxInputLen + 1, MaxInputLen + 1), Input(MaxInputLen, 2 * MaxInputLen)}

\* JSON values.
JsonString(s) == [t |-> "string", s |-> s, a |-> << >>]
JsonArray(a) == [t |-> "array", s |-> "", a |-> a]
JsonNull == [t |-> "null", s |-> "", a |-> << >>]

\* Response bodies.
NoJson == [Success |-> FALSE, Result |-> JsonNull]
EmptyBody == [kind |-> "empty", json |-> NoJson, text |-> "", version |-> Unset]
TextBody(s) == [kind |-> "text", json |-> NoJson, text |-> s, version |-> Unset]
JsonBody(success, result) ==
    [kind |-> "json", json |-> [Success |-> success, Result |-> result],
     text |-> "", version |-> Unset]
PageBody(v) == [kind |-> "page", json |-> NoJson, text |-> "", version |-> v]
FileBody == [kind |-> "file", json |-> NoJson, text |-> "", version |-> Unset]
RelayBody(bytes) ==
    [kind |-> "relay", json |-> NoJson, text |-> bytes, version |-> Unset]

\* What getImageResults returned: a status code and the bytes of the body.
ImageResult(status, bytes) == [status |-> status, bytes |-> bytes]
NoImage == ImageResult(0, "")


(***************************************************************************)
(* The lookup handlers of src/unnamed/part_000 (word list loaded by every  *)
(* request).  `loadOk` is whether kowalski.LoadWords succeeds and `result` *)
(* is what the word-matching function returns when it is called.           *)
(***************************************************************************)
Outcome(status, body, loads, lookups, result) ==
    [status |-> status, body |-> body, loads |-> loads, loadErr |-> FALSE,
     lookups |-> lookups, result |-> result, imageCalls |-> 0, image |-> NoImage,
     opened |-> FALSE, fileOpen |-> FALSE]

\* json.Marshal of a []string: a nil slice encodes as null.
MarshalSlice(result) ==
    IF result.isNil THEN JsonNull ELSE JsonArray(result.elems)

\* getResults with Success set whatever the length of the result.
GetResultsAlwaysSuccess(input, result) ==
    IF input.bytes = 0 \/ input.bytes > MaxInputLen
    THEN Outcome(StatusBadRequest, JsonBody(FALSE, JsonString("Invalid input")),
                 0, 0, NilSlice)
    ELSE Outcome(StatusOK, JsonBody(TRUE, MarshalSlice(result)), 0, 1, result)

\* getResults(input, function): len(input) is the length in bytes.
GetResults(input, result) ==
    IF input.bytes = 0 \/ input.bytes > MaxInputLen
    THEN Outcome(StatusBadRequest, JsonBody(FALSE, JsonString("Invalid input")),
                 0, 0, NilSlice)
    ELSE Outcome(StatusOK, JsonBody(Len(result.elems) > 0, MarshalSlice(result)),
                 0, 1, result)

\* anagramHandler and matchHandler: the word list is loaded before getResults.
LookupHandler(input, loadOk, result) ==
    IF ~loadOk
    THEN [Outcome(StatusInternalServerError, TextBody("Unable to load wordlist"),
                  1, 0, NilSlice) EXCEPT !.loadErr = TRUE]
    ELSE [GetResults(input, result) EXCEPT !.loads = 1]

AnagramHandler(input, loadOk, result) == LookupHandler(input, loadOk, result)

MatchHandler(input, loadOk, result) == LookupHandler(input, loadOk, result)

(***************************************************************************)
(* The lookup handlers of src/main.go.  getResults(words, input, f) and    *)
(* getImageResults(file) are defined outside the files at hand.            *)
(***************************************************************************)
\* getResults(words, input, f): validation first, then the multiplexed lookup.
GetResultsMultiplex(input, result) ==
    IF input.chars < 1 \/ input.chars > MaxInputLen
    THEN Outcome(StatusBadRequest, JsonBody(FALSE, JsonString("Invalid input")),
                 0, 0, NilSlice)
    ELSE Outcome(StatusOK, JsonBody(Len(result.elems) > 0, MarshalSlice(result)),
                 0, 1, result)

SharedAnagramHandler(input, result) == GetResultsMultiplex(input, result)

SharedMatchHandler(input, result) == GetResultsMultiplex(input, result)

\* getImageResults(file): bytes and a status code from the metadata collaborator.
ImageResults ==
    {ImageResult(StatusOK, "metadata"),
     ImageResult(StatusInternalServerError, "unreadable image")}

\* exifUpload that returns without closing the uploaded file.
ExifUploadFileLeftOpen(fieldOk, image) ==
    IF ~fieldOk
    THEN Outcome(StatusInternalServerError, TextBody("Error"), 0, 0, NilSlice)
    ELSE [Outcome(image.status, RelayBody(image.bytes), 0, 0, NilSlice)
            EXCEPT !.imageCalls = 1, !.image = image, !.opened = TRUE,
                   !.fileOpen = TRUE]

\* exifUpload: `fieldOk` is whether request.FormFile("exifFile") succeeds and
\* `image` is what getImageResults returns; the deferred Close runs on return.
ExifUpload(fieldOk, image) ==
    IF ~fieldOk
    THEN Outcome(StatusInternalServerError, TextBody("Error"), 0, 0, NilSlice)
    ELSE [Outcome(image.status, RelayBody(image.bytes), 0, 0, NilSlice)
            EXCEPT !.imageCalls = 1, !.image = image, !.opened = TRUE,
                   !.fileOpen = FALSE]

(***************************************************************************)
(* State.                                                                  *)
(***************************************************************************)
envV == <<variant, tdirWatched>>
mainV == <<mainPc, exitCode, exitCause>>
tplV == <<templates, unsynced>>
diskV == <<diskVersion, diskOk>>
watchV == <<watcher, watching, events, parsing>>
srvV == <<listener, stop, elapsed>>
reqV == <<reqs>>

TemplateRoutes == {"index", "css", "js"}
LookupRoutes == {"anagram", "match"}

\* The routes registered on the mux ("other" is a path that falls to "/").
Routes ==
    IF variant = "shared"
    THEN {"static", "favicon", "index", "other", "anagram", "match", "exifUpload"}
    ELSE {"index", "other", "css", "js", "anagram", "match"}

NoOutcome == Outcome(0, EmptyBody, 0, 0, NilSlice)

\* A slot: the request's position, its route, the template set it read, its
\* input and, once its handler has returned, what the handler did.  `logged`
\* counts the log lines requestLogger wrote for the slot's latest request.
FreeReq ==
    [pc |-> "free", route |-> "none", tpl |-> Unset, torn |-> FALSE,
     input |-> NoInput, out |-> NoOutcome, logged |-> 0]

Alive == exitCode = Running

InFlight == {i \in Slots : reqs[i].pc # "free"}

\* The Lifecycle Controller's state.
Lifecycle ==
    CASE ~Alive -> "Stopped"
      [] mainPc = "shutdown" -> "Draining"
      [] mainPc = "waitStop" -> "Serving"
      [] OTHER -> "Starting"

Init ==
    /\ variant \in Variants
    /\ tdirWatched \in BOOLEAN
    /\ mainPc = "start"
    /\ exitCode = Running
    /\ exitCause = "none"
    /\ words = "unset"
    /\ templates = Unset
    /\ unsynced = FALSE
    /\ diskVersion = 0
    /\ diskOk \in BOOLEAN
    /\ watcher = "none"
    /\ watching = FALSE
    /\ events = << >>
    /\ parsing = << >>
    /\ listener = "unbound"
    /\ stop = 0
    /\ elapsed = 0
    /\ reqs = [i \in Slots |-> FreeReq]

\* The process ends: every goroutine stops where it is.
Exit(code, cause) ==
    /\ exitCode' = code
    /\ exitCause' = cause
    /\ UNCHANGED mainPc

(***************************************************************************)
(* main                                                                    *)
(***************************************************************************)
\* envflag.Parse fails: log.Fatalf.
ParseFlagsFail ==
    /\ Alive /\ mainPc = "start"
    /\ Exit(ExitFatal, "flags")
    /\ UNCHANGED <<envV, words, tplV, diskV, watchV, srvV, reqV>>

\* -download-flags (main.go): downloadFlags() and return.
DownloadFlags ==
    /\ Alive /\ mainPc = "start" /\ variant = "shared"
    /\ Exit(ExitOk, "download")
    /\ UNCHANGED <<envV, words, tplV, diskV, watchV, srvV, reqV>>

ParseFlags ==
    /\ Alive /\ mainPc = "start"
    /\ mainPc' = IF variant = "shared" THEN "loadWords" ELSE "reloadTemplates"
    /\ UNCHANGED <<envV, exitCode, exitCause, words, tplV, diskV, watchV, srvV, reqV>>

\* words = loadWords(*wordList) (main.go).
LoadWords ==
    /\ Alive /\ mainPc = "loadWords"
    /\ words' = "loaded"
    /\ mainPc' = "reloadTemplates"
    /\ UNCHANGED <<envV, exitCode, exitCause, tplV, diskV, watchV, srvV, reqV>>

\* reloadTemplates: templates = template.Must(template.ParseFiles(...)).
\* A parse error panics before the assignment; nothing recovers the panic.
\* `racy` is whether the caller runs concurrently with the readers of templates.
ReloadTemplates(racy, cause) ==
    IF diskOk
    THEN /\ templates' = diskVersion
         /\ unsynced' = racy
         /\ UNCHANGED <<exitCode, exitCause>>
    ELSE /\ exitCode' = ExitPanic
         /\ exitCause' = cause
         /\ UNCHANGED tplV

\* The initial parse with its error ignored instead of fatal.
InitialParseUnchecked ==
    /\ Alive /\ mainPc = "reloadTemplates"
    /\ templates' = IF diskOk THEN diskVersion ELSE templates
    /\ mainPc' = "templateChanges"
    /\ UNCHANGED <<envV, exitCode, exitCause, words, unsynced, diskV, watchV, srvV, reqV>>

InitialParse ==
    /\ Alive /\ mainPc = "reloadTemplates"
    /\ ReloadTemplates(FALSE, "startupParse")
    /\ mainPc' = IF diskOk THEN "templateChanges" ELSE mainPc
    /\ UNCHANGED <<envV, words, diskV, watchV, srvV, reqV>>

\* templateChanges: NewWatcher, Add("./templates"), go templateReloader.
WatchOutcomes == {"ok", "noWatcher", "noAdd"}

TemplateChanges(outcome) ==
    /\ Alive /\ mainPc = "templateChanges"
    /\ watcher' = IF outcome = "noWatcher" THEN "none" ELSE "running"
    /\ watching' = (outcome = "ok")
    /\ mainPc' = "serve"
    /\ UNCHANGED <<envV, exitCode, exitCause, words, tplV, diskV, events, parsing,
                   srvV, reqV>>

\* The mux, http.Server, go ListenAndServe, make(chan os.Signal, 1), Notify.
StartServer ==
    /\ Alive /\ mainPc = "serve"
    /\ mainPc' = "waitStop"
    /\ UNCHANGED <<envV, exitCode, exitCause, words, tplV, diskV, watchV, srvV, reqV>>

\* The goroutine running server.ListenAndServe with its error made fatal.
ListenAndServeFatal(ok) ==
    /\ Alive /\ mainPc \in {"waitStop", "shutdown"} /\ listener = "unbound"
    /\ listener' = IF mainPc = "shutdown" THEN "closed"
                   ELSE IF ok THEN "listening" ELSE "failed"
    /\ IF mainPc = "waitStop" /\ ~ok
       THEN Exit(ExitFatal, "listen")
       ELSE UNCHANGED mainV
    /\ UNCHANGED <<envV, words, tplV, diskV, watchV, stop, elapsed, reqV>>

\* The goroutine running server.ListenAndServe; its error is discarded.
ListenAndServe(ok) ==
    /\ Alive /\ mainPc \in {"waitStop", "shutdown"} /\ listener = "unbound"
    /\ listener' = IF mainPc = "shutdown" THEN "closed"
                   ELSE IF ok THEN "listening" ELSE "failed"
    /\ UNCHANGED <<envV, mainV, words, tplV, diskV, watchV, stop, elapsed, reqV>>

\* A signal Notify relays: sent to stop without blocking, dropped when it is full.
Signal ==
    /\ Alive /\ mainPc \in {"waitStop", "shutdown"}
    /\ stop' = IF stop < StopCapacity THEN stop + 1 ELSE stop
    /\ UNCHANGED <<envV, mainV, words, tplV, diskV, watchV, listener, elapsed, reqV>>

\* main receiving from stop in a loop: a further signal starts Shutdown afresh.
ReceiveStopAgain ==
    /\ Alive /\ mainPc \in {"waitStop", "shutdown"} /\ stop > 0
    /\ stop' = stop - 1
    /\ mainPc' = "shutdown"
    /\ elapsed' = 0
    /\ listener' = IF listener = "listening" THEN "closed" ELSE listener
    /\ UNCHANGED <<envV, exitCode, exitCause, words, tplV, diskV, watchV, reqV>>

\* <-stop, context.WithTimeout(5s), server.Shutdown closes the listener.
ReceiveStop ==
    /\ Alive /\ mainPc = "waitStop" /\ stop > 0
    /\ stop' = stop - 1
    /\ mainPc' = "shutdown"
    /\ elapsed' = 0
    /\ listener' = IF listener = "listening" THEN "closed" ELSE listener
    /\ UNCHANGED <<envV, exitCode, exitCause, words, tplV, diskV, watchV, reqV>>

\* A second passes while Shutdown waits for the connections to become idle.
Tick ==
    /\ Alive /\ mainPc = "shutdown"
    /\ elapsed < ShutdownTimeout /\ InFlight # {}
    /\ elapsed' = elapsed + 1
    /\ UNCHANGED <<envV, mainV, words, tplV, diskV, watchV, listener, stop, reqV>>

\* Shutdown returns nil: main logs and returns.
ShutdownDone ==
    /\ Alive /\ mainPc = "shutdown"
    /\ elapsed < ShutdownTimeout /\ InFlight = {}
    /\ Exit(ExitOk, "drained")
    /\ UNCHANGED <<envV, words, tplV, diskV, watchV, srvV, reqV>>

\* The expired context treated like a completed shutdown.
ShutdownDeadlineIgnored ==
    /\ Alive /\ mainPc = "shutdown"
    /\ elapsed = ShutdownTimeout
    /\ Exit(ExitOk, "deadline")
    /\ UNCHANGED <<envV, words, tplV, diskV, watchV, srvV, reqV>>

\* The context expires first: Shutdown returns its error, log.Fatalf.
ShutdownDeadline ==
    /\ Alive /\ mainPc = "shutdown"
    /\ elapsed = ShutdownTimeout
    /\ Exit(ExitFatal, "deadline")
    /\ UNCHANGED <<envV, words, tplV, diskV, watchV, srvV, reqV>>

(***************************************************************************)
(* The template directory and the watcher                                  *)
(***************************************************************************)
\* fsnotify delivers an event for the directory "./templates" only.
Notified == watching /\ tdirWatched

\* A template file in *templateDirectory is rewritten, once the watch is set up.
EditTemplate(ok) ==
    /\ Alive /\ mainPc \in {"waitStop", "shutdown"}
    /\ diskVersion < MaxEdits
    /\ Notified => Len(events) < MaxEvents
    /\ diskVersion' = diskVersion + 1
    /\ diskOk' = ok
    /\ events' = IF Notified THEN Append(events, "write") ELSE events
    /\ UNCHANGED <<envV, mainV, words, tplV, watcher, watching, parsing, srvV, reqV>>

\* Any other event in "./templates", the template files being left as they are.
WatchedDirEvent(kind) ==
    /\ Alive /\ mainPc \in {"waitStop", "shutdown"}
    /\ watching /\ Len(events) < MaxEvents
    /\ events' = Append(events, kind)
    /\ UNCHANGED <<envV, mainV, words, tplV, diskV, watcher, watching, parsing,
                   srvV, reqV>>

\* templateReloader reloading for the events that change a file's content only.
TemplateReloaderWritesOnly ==
    /\ Alive /\ watcher = "running" /\ parsing = << >> /\ events # << >>
    /\ events' = Tail(events)
    /\ parsing' = IF Head(events) \in {"write", "create"}
                  THEN Append(parsing, Head(events)) ELSE parsing
    /\ UNCHANGED <<envV, mainV, words, tplV, diskV, watcher, watching, srvV, reqV>>

\* templateReloader starting a reload for an event while one is in progress.
TemplateReloaderPerEvent ==
    /\ Alive /\ watcher = "running" /\ events # << >>
    /\ events' = Tail(events)
    /\ parsing' = Append(parsing, Head(events))
    /\ UNCHANGED <<envV, mainV, words, tplV, diskV, watcher, watching, srvV, reqV>>

\* templateReloader reloading in a loop without waiting for an event.
TemplateReloaderPolling ==
    /\ Alive /\ watcher = "running" /\ parsing = << >>
    /\ events' = IF events # << >> THEN Tail(events) ELSE events
    /\ parsing' = Append(parsing, IF events # << >> THEN Head(events) ELSE "none")
    /\ UNCHANGED <<envV, mainV, words, tplV, diskV, watcher, watching, srvV, reqV>>

\* templateReloader: the loop receives one event from watcher.Events, whatever
\* its kind, and calls reloadTemplates() before it receives again.
TemplateReloader ==
    /\ Alive /\ watcher = "running" /\ parsing = << >> /\ events # << >>
    /\ events' = Tail(events)
    /\ parsing' = Append(parsing, Head(events))
    /\ UNCHANGED <<envV, mainV, words, tplV, diskV, watcher, watching, srvV, reqV>>

\* The reloadTemplates() call of the watcher goroutine parses, assigns, returns.
WatcherReload ==
    /\ Alive /\ parsing # << >>
    /\ parsing' = Tail(parsing)
    /\ ReloadTemplates(TRUE, "reloadPanic")
    /\ UNCHANGED <<envV, mainPc, words, diskV, watcher, watching, events, srvV, reqV>>

\* The write of templates becomes ordered before the reads of other goroutines.
MemorySync ==
    /\ Alive /\ unsynced
    /\ unsynced' = FALSE
    /\ UNCHANGED <<envV, mainV, words, templates, diskV, watchV, srvV, reqV>>

(***************************************************************************)
(* Requests                                                                *)
(***************************************************************************)
\* The server accepts a connection and reads a request for `route`.
Accept(i, route) ==
    /\ Alive /\ listener = "listening"
    /\ reqs[i].pc = "free" /\ route \in Routes
    /\ reqs' = [reqs EXCEPT ![i] = [FreeReq EXCEPT !.pc = "accepted", !.route = route]]
    /\ UNCHANGED <<envV, mainV, words, tplV, diskV, watchV, srvV>>

\* The handler returns: the request waits for requestLogger's log line.
Served(i, input, outcome) ==
    reqs' = [reqs EXCEPT ![i].pc = "served", ![i].input = input, ![i].out = outcome]

\* anagramHandler, matchHandler.
LookupRequest(i, input, loadOk, result) ==
    /\ Alive /\ reqs[i].pc = "accepted" /\ reqs[i].route \in LookupRoutes
    /\ variant = "shared" => loadOk
    /\ Served(i, input,
              CASE variant = "shared" /\ reqs[i].route = "anagram" ->
                       SharedAnagramHandler(input, result)
                [] variant = "shared" /\ reqs[i].route = "match" ->
                       SharedMatchHandler(input, result)
                [] variant # "shared" /\ reqs[i].route = "anagram" ->
                       AnagramHandler(input, loadOk, result)
                [] OTHER -> MatchHandler(input, loadOk, result))
    /\ UNCHANGED <<envV, mainV, words, tplV, diskV, watchV, srvV>>

\* exifUpload (main.go).
ExifRequest(i, fieldOk, image) ==
    /\ Alive /\ reqs[i].pc = "accepted" /\ reqs[i].route = "exifUpload"
    /\ Served(i, NoInput, ExifUpload(fieldOk, image))
    /\ UNCHANGED <<envV, mainV, words, tplV, diskV, watchV, srvV>>

\* The file server under /static/ and faviconHandler: the file, or 404 without it.
FileRoutes == {"static", "favicon"}

ServeFile(i, found) ==
    /\ Alive /\ reqs[i].pc = "accepted" /\ reqs[i].route \in FileRoutes
    /\ Served(i, NoInput,
              IF found THEN Outcome(StatusOK, FileBody, 0, 0, NilSlice)
              ELSE Outcome(StatusNotFound, EmptyBody, 0, 0, NilSlice))
    /\ UNCHANGED <<envV, mainV, words, tplV, diskV, watchV, srvV>>

\* indexHandler for a path other than "/".
NotFound(i) ==
    /\ Alive /\ reqs[i].pc = "accepted" /\ reqs[i].route = "other"
    /\ Served(i, NoInput, Outcome(StatusNotFound, EmptyBody, 0, 0, NilSlice))
    /\ UNCHANGED <<envV, mainV, words, tplV, diskV, watchV, srvV>>

\* A template handler that re-parses the templates itself before it reads them.
FetchReloading(i) ==
    /\ Alive /\ reqs[i].pc = "accepted" /\ reqs[i].route \in TemplateRoutes
    /\ templates' = IF diskOk THEN diskVersion ELSE templates
    /\ reqs' = [reqs EXCEPT ![i].pc = "fetched", ![i].tpl = templates',
                            ![i].torn = unsynced]
    /\ UNCHANGED <<envV, mainV, words, unsynced, diskV, watchV, srvV>>

\* indexHandler, cssHandler, jsHandler: the read of the package variable templates.
\* Unordered with the watcher's write, it may see the pointer before the parsed set.
Fetch(i) ==
    /\ Alive /\ reqs[i].pc = "accepted" /\ reqs[i].route \in TemplateRoutes
    /\ reqs' = [reqs EXCEPT ![i].pc = "fetched", ![i].tpl = templates,
                            ![i].torn = unsynced]
    /\ UNCHANGED <<envV, mainV, words, tplV, diskV, watchV, srvV>>

\* ExecuteTemplate on the set that was read.
ExecuteTemplate(tpl, torn) ==
    IF torn
    THEN Outcome(StatusInternalServerError, EmptyBody, 0, 0, NilSlice)
    ELSE Outcome(StatusOK, PageBody(tpl), 0, 0, NilSlice)

Render(i) ==
    /\ Alive /\ reqs[i].pc = "fetched"
    /\ Served(i, NoInput, ExecuteTemplate(reqs[i].tpl, reqs[i].torn))
    /\ UNCHANGED <<envV, mainV, words, tplV, diskV, watchV, srvV>>

\* requestLogger writing its log line before it calls the wrapped handler.
LogRequestBeforeHandler(i) ==
    /\ Alive /\ reqs[i].pc = "accepted"
    /\ reqs' = [reqs EXCEPT ![i] = [FreeReq EXCEPT !.logged = reqs[i].logged + 1]]
    /\ UNCHANGED <<envV, mainV, words, tplV, diskV, watchV, srvV>>

\* requestLogger: the log line after ServeHTTP returned; the connection is idle.
LogRequest(i) ==
    /\ Alive /\ reqs[i].pc = "served"
    /\ reqs' = [reqs EXCEPT ![i] = [FreeReq EXCEPT !.logged = reqs[i].logged + 1]]
    /\ UNCHANGED <<envV, mainV, words, tplV, diskV, watchV, srvV>>

PageRoutes == {"index", "other", "css", "js"}
AllRoutes == PageRoutes \cup FileRoutes \cup LookupRoutes \cup {"exifUpload"}

Startup ==
    \/ ParseFlagsFail
    \/ DownloadFlags
    \/ ParseFlags
    \/ LoadWords
    \/ InitialParse
    \/ \E outcome \in WatchOutcomes : TemplateChanges(outcome)
    \/ StartServer
    \/ \E ok \in BOOLEAN : ListenAndServe(ok)

Shutdown ==
    \/ Signal
    \/ ReceiveStop
    \/ Tick
    \/ ShutdownDone
    \/ ShutdownDeadline

Watching ==
    \/ \E ok \in BOOLEAN : EditTemplate(ok)
    \/ \E kind \in EventKinds : WatchedDirEvent(kind)
    \/ TemplateReloader
    \/ WatcherReload
    \/ MemorySync

Pages ==
    \/ \E i \in Slots : NotFound(i)
    \/ \E i \in Slots : Fetch(i)
    \/ \E i \in Slots : Render(i)
    \/ \E i \in Slots : LogRequest(i)

Lookups ==
    \/ \E i \in Slots, input \in Inputs, loadOk \in BOOLEAN, result \in LookupResults :
          LookupRequest(i, input, loadOk, result)
    \/ \E i \in Slots, fieldOk \in BOOLEAN, image \in ImageResults :
          ExifRequest(i, fieldOk, image)
    \/ \E i \in Slots, found \in BOOLEAN : ServeFile(i, found)

\* The runtime: start, watch and reload, serve the pages, shut down.
Next ==
    \/ Startup
    \/ Shutdown
    \/ Watching
    \/ \E i \in Slots, route \in PageRoutes : Accept(i, route)
    \/ Pages

Spec == Init /\ [][Next]_vars

\* The request pipeline: start, then serve requests on every route.
HandlerNext ==
    \/ Startup
    \/ \E i \in Slots, route \in AllRoutes : Accept(i, route)
    \/ Pages
    \/ Lookups

HandlerSpec == Init /\ [][HandlerNext]_vars

\* The whole service: the runtime together with the requests on every route.
FullNext ==
    \/ Next
    \/ HandlerNext

FullSpec == Init /\ [][FullNext]_vars

(***************************************************************************)
(* Claims about the request pipeline, checked under HandlerSpec.           *)
(***************************************************************************)
Returned(i) == reqs[i].pc = "served"

LookupReturned(i) == Returned(i) /\ reqs[i].route \in LookupRoutes

\* The sequence a JSON array or null decodes to.
JsonElems(j) == IF j.t = "array" THEN j.a ELSE << >>

InvalidInputBody == JsonBody(FALSE, JsonString("Invalid input"))

\* C1: a lookup request whose input has length 0 or 14 or more is answered 400
\* with {success:false, result:"Invalid input"} and calls the Word Data Provider
\* neither to load a word list nor to look up, in both variants.
C1_InvalidInputNeverReachesProvider ==
    \A i \in Slots :
        (LookupReturned(i)
           /\ (reqs[i].input.chars = 0 \/ reqs[i].input.chars > MaxInputLen))
        => /\ reqs[i].out.status = StatusBadRequest
           /\ reqs[i].out.body = InvalidInputBody
           /\ reqs[i].out.loads = 0
           /\ reqs[i].out.lookups = 0

\* C2: whenever the lookup is computed the response is 200 and the envelope
\* {success, result} where result is the sequence the operation returned and
\* success is true exactly when that sequence is non-empty.
C2_ComputedLookupEnvelope ==
    \A i \in Slots :
        (LookupReturned(i) /\ reqs[i].out.lookups > 0)
        => /\ reqs[i].out.status = StatusOK
           /\ reqs[i].out.body.kind = "json"
           /\ reqs[i].out.body.json.Result.t \in {"array", "null"}
           /\ JsonElems(reqs[i].out.body.json.Result) = reqs[i].out.result.elems
           /\ reqs[i].out.body.json.Success = (Len(reqs[i].out.result.elems) > 0)

\* A computed lookup of the load-per-request variant that found nothing.
C2_Witness ==
    \E i \in Slots :
        /\ LookupReturned(i) /\ variant = "perRequest"
        /\ reqs[i].out.lookups > 0
        /\ reqs[i].out.result.elems = << >>
        /\ reqs[i].out.status = StatusOK
        /\ ~reqs[i].out.body.json.Success

\* C8: in the load-per-request variant a failed word-list load is answered 500
\* with the JSON envelope {success:false, result:"Unable to load wordlist"}.
C8_LoadFailureEnvelope ==
    \A i \in Slots :
        (LookupReturned(i) /\ variant = "perRequest" /\ reqs[i].out.loadErr)
        => /\ reqs[i].out.status = StatusInternalServerError
           /\ reqs[i].out.body = JsonBody(FALSE, JsonString("Unable to load wordlist"))

\* The error responses C9 lists: invalid input, word-list load failure, upload
\* field absent or unreadable.
ClientError(i) ==
    \/ LookupReturned(i) /\ reqs[i].out.status # StatusOK
    \/ Returned(i) /\ reqs[i].route = "exifUpload" /\ ~reqs[i].out.opened

\* C9: every client-facing error response has the two-field envelope
\* {success, result} of a successful response.
C9_ErrorsShareEnvelope ==
    \A i \in Slots : ClientError(i) => reqs[i].out.body.kind = "json"

(***************************************************************************)
(* Claims about the runtime, checked under Spec.                           *)
(***************************************************************************)
\* C3: a reload by the watcher that fails to parse leaves the process running
\* and the Template Store as it was.
C3_FailedReloadKeepsServing ==
    [][(Len(parsing') < Len(parsing) /\ ~diskOk)
         => (exitCode' = Running /\ templates' = templates)]_vars

\* C4: every request renders from one complete TemplateSet: the set it read is
\* never one whose parse it cannot yet see in full.
C4_RequestsReadCompleteSet ==
    \A i \in Slots :
        (reqs[i].pc \in {"fetched", "served"} /\ reqs[i].route \in TemplateRoutes)
        => (reqs[i].tpl # Unset /\ ~reqs[i].torn)

\* C5: once the watch is established, whenever the template files in the
\* configured directory differ from the set in the Template Store, an event is
\* on its way to the watcher or being handled by it, whatever the
\* template-directory setting.
C5_EditReachesWatcher ==
    (Alive /\ watcher = "running" /\ watching /\ diskOk /\ templates # diskVersion)
    => (events # << >> \/ parsing # << >>)

\* C6: once draining, the process stops only when every in-flight request has
\* finished or the 5 seconds have elapsed.
C6_StopsAtDrainOrDeadline ==
    (~Alive /\ mainPc = "shutdown")
    => (InFlight = {} \/ elapsed = ShutdownTimeout)

\* C7 as stated: the exit code is 0 exactly when shutdown drained every
\* in-flight request within the deadline.
C7_ExitZeroIffDrained ==
    ~Alive => ((exitCode = ExitOk) <=> (exitCause = "drained"))

\* C7, amended: the exit code is 0 exactly when shutdown drained every in-flight
\* request within the deadline or the process ran in download-flags mode; it is
\* non-zero when the deadline is exceeded and when the initial parse fails, and
\* no exit with code 0 leaves a request in flight.
C7_ExitCodes ==
    ~Alive =>
        /\ (exitCode = ExitOk) <=> (exitCause \in {"drained", "download"})
        /\ exitCause = "drained" =>
              (mainPc = "shutdown" /\ InFlight = {} /\ elapsed < ShutdownTimeout)
        /\ exitCause = "download" => (mainPc = "start" /\ listener = "unbound")
        /\ exitCause = "deadline" => (exitCode # ExitOk /\ elapsed = ShutdownTimeout)
        /\ exitCause = "startupParse" => (exitCode # ExitOk /\ templates = Unset)
        /\ exitCode = ExitOk => InFlight = {}

\* A shutdown that waited for a request and returned within the deadline.
C7_Witness ==
    /\ ~Alive /\ exitCode = ExitOk /\ exitCause = "drained"
    /\ elapsed > 0 /\ InFlight = {}

\* C10 as stated: before the listener is started the word data is loaded, the
\* templates are parsed and the watcher is started.
C10_StartupOrder ==
    listener # "unbound"
    => (words = "loaded" /\ templates # Unset /\ watcher = "running")

\* C10, amended: word data is loaded first in the shared-word-list variant only,
\* then the initial templates are parsed, then templateChanges runs (the watcher
\* task starts unless the watcher cannot be created), then the listener is
\* started.  No handler runs while the Template Store is unset, and a failed
\* initial parse ends the process with neither watcher task nor listener started.
C10_StartupOrderByVariant ==
    /\ templates # Unset => (variant = "shared" => words = "loaded")
    /\ mainPc \in {"templateChanges", "serve", "waitStop", "shutdown"}
          => templates # Unset
    /\ watcher = "running" => mainPc \in {"serve", "waitStop", "shutdown"}
    /\ listener # "unbound" => mainPc \in {"waitStop", "shutdown"}
    /\ \A i \in Slots :
          reqs[i].pc # "free" => (templates # Unset /\ listener # "unbound")
    /\ \A i \in Slots : reqs[i].pc \in {"fetched", "served"} /\
                         reqs[i].route \in TemplateRoutes => reqs[i].tpl # Unset
    /\ exitCause = "startupParse"
          => (watcher = "none" /\ listener = "unbound" /\ InFlight = {})

\* A handler of the load-per-request variant that has read the Template Store.
C10_Witness ==
    \E i \in Slots :
        /\ variant = "perRequest" /\ words = "unset"
        /\ reqs[i].pc = "fetched" /\ reqs[i].tpl # Unset
        /\ watcher = "running" /\ listener = "listening"

\* C11: when the watch cannot be established (NewWatcher fails, or Add fails)
\* no reload is ever started or performed: no event is delivered, the Template
\* Store keeps the set parsed at startup (version 0) with no racing write, and
\* no reload ends the process, so requests are served from the startup set.
C11_NoWatchNoReload ==
    (mainPc \in {"serve", "waitStop", "shutdown"} /\ ~watching)
    => /\ events = << >> /\ parsing = << >>
       /\ templates = 0 /\ ~unsynced
       /\ exitCause # "reloadPanic"
       /\ \A i \in Slots :
             (reqs[i].pc = "served" /\ reqs[i].route \in TemplateRoutes)
             => (reqs[i].out.status = StatusOK /\ reqs[i].out.body = PageBody(0))

\* Add failed, the templates were edited afterwards, and a page was served from
\* the startup set.
C11_Witness ==
    /\ watcher = "running" /\ ~watching /\ tdirWatched
    /\ diskVersion > 0 /\ templates = 0
    /\ \E i \in Slots : reqs[i].pc = "served" /\ reqs[i].out.body = PageBody(0)

\* C12: a request in flight is cut off only by the expiry of the 5-second drain
\* deadline: whenever the process has ended with a request still in flight, it
\* ended on the deadline, never by a step of the watcher task.
C12_OnlyDeadlineCutsRequests ==
    (~Alive /\ InFlight # {}) => exitCause = "deadline"

\* C13: on every route of the mux a request is logged exactly once, and only
\* after its wrapped handler has returned: the log count of a request changes
\* only from 0 to 1, in the step that follows the handler's return and that
\* ends the request, and no request ends without that log line.
C13_LoggedOnceAfterHandler ==
    [][\A i \in Slots :
         /\ (reqs'[i].logged # reqs[i].logged /\ reqs'[i].pc # "accepted")
            => /\ reqs[i].pc = "served" /\ reqs[i].route \in AllRoutes
               /\ reqs[i].logged = 0 /\ reqs'[i].logged = 1
               /\ reqs'[i].pc = "free"
         /\ (reqs[i].pc # "free" /\ reqs'[i].pc = "free") => reqs'[i].logged = 1
         /\ reqs'[i].pc \in {"accepted", "fetched", "served"} => reqs'[i].logged = 0
      ]_vars

\* A request has ended with its one log line.
C13_Witness ==
    \E i \in Slots : reqs[i].pc = "free" /\ reqs[i].logged = 1

\* C14: exifUpload, when the form field exifFile is absent or unreadable,
\* answers 500 with the generic body and never calls the image-metadata
\* collaborator; when the field is read it calls the collaborator exactly once,
\* relays its status and bytes unchanged, and has closed the uploaded file
\* when it returns.
C14_ExifUploadRelays ==
    \A i \in Slots :
        (Returned(i) /\ reqs[i].route = "exifUpload")
        => /\ ~reqs[i].out.fileOpen
           /\ ~reqs[i].out.opened
                => /\ reqs[i].out.status = StatusInternalServerError
                   /\ reqs[i].out.body = TextBody("Error")
                   /\ reqs[i].out.imageCalls = 0
           /\ reqs[i].out.opened
                => /\ reqs[i].out.imageCalls = 1
                   /\ reqs[i].out.image \in ImageResults
                   /\ reqs[i].out.status = reqs[i].out.image.status
                   /\ reqs[i].out.body = RelayBody(reqs[i].out.image.bytes)

\* An upload was read and the collaborator's failure status was relayed.
C14_Witness ==
    \E i \in Slots :
        /\ Returned(i) /\ reqs[i].route = "exifUpload" /\ reqs[i].out.opened
        /\ reqs[i].out.imageCalls = 1
        /\ reqs[i].out.status = StatusInternalServerError
        /\ reqs[i].out.body.text = "unreadable image"

\* C15: the validity bound counts characters: a lookup input (its word list
\* loaded) is passed to the lookup operation exactly when it has 1 to 13
\* characters, however many bytes each character occupies.
C15_BoundCountsCharacters ==
    \A i \in Slots :
        (LookupReturned(i) /\ ~reqs[i].out.loadErr)
        => ((reqs[i].input.chars >= 1 /\ reqs[i].input.chars <= MaxInputLen)
              <=> (reqs[i].out.lookups = 1 /\ reqs[i].out.status = StatusOK))

\* C16: reloads never overlap: at most one reloadTemplates call of the one
\* watcher task is in progress, the task takes events one at a time from the
\* head of the queue, and it takes the next event only when the reload for the
\* previous one has completed.
C16_ReloadsNeverOverlap ==
    [][/\ Len(parsing') <= 1
       /\ parsing' # << >> => watcher' = "running"
       /\ Len(events') < Len(events)
            => (parsing = << >> /\ Len(parsing') = 1 /\ events' = Tail(events))
       /\ Len(parsing') > Len(parsing)
            => (parsing = << >> /\ Len(events') = Len(events) - 1)
      ]_vars

\* A further event waits in the queue while a reload is in progress.
C16_Witness ==
    Alive /\ watcher = "running" /\ Len(parsing) = 1 /\ events # << >>

\* The order of the Lifecycle Controller's states.
LifecycleRank(l) ==
    CASE l = "Starting" -> 0
      [] l = "Serving" -> 1
      [] l = "Draining" -> 2
      [] OTHER -> 3

\* C18: the lifecycle only moves forward through Starting, Serving, Draining,
\* Stopped.  Shutdown is initiated once, from Serving, with the clock at 0; while
\* draining, no step (a further signal included) takes main out of Shutdown
\* other than by ending the process, and none sets the clock back.
C18_LifecycleForwardOnly ==
    [][/\ LifecycleRank(Lifecycle') >= LifecycleRank(Lifecycle)
       /\ mainPc = "shutdown"
            => (mainPc' = "shutdown" /\ elapsed' >= elapsed
                /\ elapsed' <= ShutdownTimeout)
       /\ (mainPc' = "shutdown" /\ mainPc # "shutdown")
            => (mainPc = "waitStop" /\ elapsed' = 0)
      ]_vars

\* Draining for some seconds, with a further signal delivered meanwhile.
C18_Witness ==
    Alive /\ mainPc = "shutdown" /\ elapsed > 0 /\ stop > 0

\* C19: the watcher task does not filter or coalesce events: every event it
\* receives, of any kind, starts exactly one re-parse for that event, a re-parse
\* is started by nothing else and is performed once (assigning the set parsed
\* from the directory when it parses), and the task, once started, does not
\* stop while the process runs, its channels never being closed.
C19_EveryEventReparses ==
    [][/\ Len(events') < Len(events)
            => /\ events' = Tail(events)
               /\ parsing' = Append(parsing, Head(events))
       /\ parsing' # parsing
            => \/ /\ events # << >> /\ events' = Tail(events)
                  /\ parsing' = Append(parsing, Head(events))
               \/ /\ parsing # << >> /\ parsing' = Tail(parsing) /\ events' = events
                  /\ diskOk => templates' = diskVersion
       /\ (watcher = "running" /\ exitCode' = Running) => watcher' = "running"
      ]_vars

\* A chmod event, the template files untouched, has started a re-parse.
C19_Witness ==
    Alive /\ watcher = "running" /\ parsing = <<"chmod">> /\ diskVersion = 0

C17_OnlyWatcherWritesStore ==
    [][(mainPc \in {"templateChanges", "serve", "waitStop", "shutdown"})
         => /\ words' = words
            /\ (templates' # templates \/ (unsynced' /\ ~unsynced))
                 => (Len(parsing') < Len(parsing) /\ reqs' = reqs /\ mainPc' = mainPc)
      ]_vars

\* The shared-word-list service after a watcher reload replaced the startup set,
\* with a lookup answered.
C17_Witness ==
    /\ variant = "shared" /\ words = "loaded" /\ templates > 0
    /\ \E i \in Slots : LookupReturned(i) /\ reqs[i].out.lookups = 1

====
